---- MODULE Spec2Model ----
(***************************************************************************)
(* A model of sublimedsl.keymap: the fluent builder (Binding, Context),    *)
(* the Keymap container with its preprocessing pipeline (deepcopy,         *)
(* lflatten, _apply_common_context, _apply_default_match_all) and the      *)
(* KeymapJSONEncoder.                                                      *)
(*                                                                         *)
(* Python objects live in three heaps (sequences indexed by object id), so *)
(* that object identity and aliasing are part of the state.  Python values *)
(* are tagged records [t |-> type name, v |-> payload].                    *)
(***************************************************************************)
EXTENDS Integers, Sequences, FiniteSets

VARIABLES
    contexts,   \* heap of Context objects, id = index
    bindings,   \* heap of Binding objects, id = index
    keymaps,    \* heap of Keymap objects, id = index
    held,       \* the objects the client code created and holds references to
    last        \* the call that has just returned: its name, receiver, arguments, result

vars == <<contexts, bindings, keymaps, held, last>>

----------------------------------------------------------------------------
(* Bounds of the model *)

MaxBindings == 5      \* Binding objects on the heap
MaxContexts == 4      \* Context objects on the heap
MaxKeymaps == 2       \* Keymap objects on the heap
MaxArgs == 4          \* keyword arguments given to Binding.to()

----------------------------------------------------------------------------
(* Python values *)

None == [t |-> "NoneType", v |-> 0]
True == [t |-> "bool", v |-> 1]
False == [t |-> "bool", v |-> 0]
Num(n) == [t |-> "int", v |-> n]
Str(s) == [t |-> "str", v |-> s]
List(s) == [t |-> "list", v |-> s]
Tuple(s) == [t |-> "tuple", v |-> s]
Dict(s) == [t |-> "dict", v |-> s]        \* v: sequence of <<key, value>> in insertion order
Ref(cls, id) == [t |-> cls, v |-> id]      \* a reference to the object id of class cls

Range(s) == {s[i] : i \in DOMAIN s}

\* Context._OPERATORS
Context_OPERATORS ==
    << "equal", "not_equal", "regex_match", "not_regex_match",
       "regex_contains", "not_regex_contains" >>

\* the inputs of the client code
BindKeys == << <<"x", "y">>, <<>> >>            \* bind('x', 'y'), then bind()
WhenKeys == { "foo", "bar" }                    \* when('foo'), when('bar')
CommonKeys == { "abc" }                         \* context('abc')
Defaults == { None, True, False }               \* default_match_all

----------------------------------------------------------------------------
(* Construction of the nodes *)

\* Binding.__init__(self, *keys): no check of the number of keys
Binding_init(keys) ==
    [keys |-> Tuple([i \in DOMAIN keys |-> Str(keys[i])]),
     command |-> None, args |-> List(<<>>), context |-> <<>>]

\* the error Binding.__init__ raises, "" when it returns normally: it never raises
Binding_init_raises(keys) == ""

\* Context.__init__(self, key, parent=None); parent 0 stands for None
Context_init(key, parent) ==
    [key |-> Str(key), operator |-> None, operand |-> None, match_all |-> None,
     parent |-> parent]

Call(op, self, args, ret) ==
    [op |-> op, self |-> self, args |-> args, ret |-> ret, raised |-> ""]

\* nothing has been built yet
InitBuilder ==
    /\ contexts = <<>>
    /\ bindings = <<>>
    /\ keymaps = <<>>
    /\ held = [b |-> {}, c |-> {}]
    /\ last = Call("start", 0, <<>>, None)

----------------------------------------------------------------------------
(* The builder: Binding and Context *)

\* bind(*keys); the client makes its bindings in the order of BindKeys
Bind ==
    \E n \in DOMAIN BindKeys :
        LET id == Len(bindings) + 1
            keys == BindKeys[n]
        IN
        /\ Len(bindings) < MaxBindings
        /\ n = Cardinality(held.b) + 1
        /\ bindings' = Append(bindings, Binding_init(keys))
        /\ held' = [held EXCEPT !.b = @ \cup {id}]
        /\ last' = [Call("Binding", id, keys, Ref("Binding", id))
                        EXCEPT !.raised = Binding_init_raises(keys)]
        /\ UNCHANGED <<contexts, keymaps>>

\* Binding.to(self, command, **args)
Binding_to(b, command, args) ==
    [b EXCEPT !.command = Str(command), !.args = Dict(args)]

To ==
    \E id \in held.b :
        /\ bindings[id].command = None
        /\ bindings' = [bindings EXCEPT ![id] = Binding_to(@, "fire", << << <<"a">>, Num(42) >> >>)]
        /\ last' = Call("to", id, <<>>, Ref("Binding", id))
        /\ UNCHANGED <<contexts, keymaps, held>>

\* Binding.when(self, key), also known as also() and and_()
When ==
    \E id \in held.b, key \in WhenKeys :
        LET cid == Len(contexts) + 1 IN
        /\ Len(contexts) < MaxContexts
        /\ bindings[id].keys = Binding_init(BindKeys[1]).keys   \* the others stay plain
        /\ \A c \in Range(bindings[id].context) : contexts[c].key # Str(key)
        /\ contexts' = Append(contexts, Context_init(key, id))
        /\ bindings' = [bindings EXCEPT ![id].context = Append(@, cid)]
        /\ last' = Call("when", id, <<>>, Ref("Context", cid))
        /\ UNCHANGED <<keymaps, held>>

\* context(key): a condition without a parent, made to be a common condition
NewContext ==
    \E key \in CommonKeys :
        LET cid == Len(contexts) + 1 IN
        /\ Len(contexts) < MaxContexts
        /\ \A c \in held.c : contexts[c].key # Str(key)
        /\ contexts' = Append(contexts, Context_init(key, 0))
        /\ held' = [held EXCEPT !.c = @ \cup {cid}]
        /\ last' = Call("Context", cid, <<>>, Ref("Context", cid))
        /\ UNCHANGED <<bindings, keymaps>>

\* the conditions the client can reach: its own ones and those of its bindings
HeldContexts == held.c \cup UNION {Range(bindings[b].context) : b \in held.b}

\* Context.all(self) and Context.any(self)
Context_all(c) == [c EXCEPT !.match_all = True]
Context_any(c) == [c EXCEPT !.match_all = False]

All ==
    \E cid \in HeldContexts :
        /\ contexts' = [contexts EXCEPT ![cid] = Context_all(@)]
        /\ last' = Call("all", cid, <<>>, Ref("Context", cid))
        /\ UNCHANGED <<bindings, keymaps, held>>

Any ==
    \E cid \in HeldContexts :
        /\ contexts' = [contexts EXCEPT ![cid] = Context_any(@)]
        /\ last' = Call("any", cid, <<>>, Ref("Context", cid))
        /\ UNCHANGED <<bindings, keymaps, held>>

\* Context._operator(self, operator, operand)
Context_operator(c, operator, operand) ==
    [c EXCEPT !.operator = Str(operator), !.operand = operand]

\* a wrong version: the condition itself is returned, whatever its parent
Context_operator_ret_self(c, cid) == Ref("Context", cid)

\* return self._parent or self
Context_operator_ret(c, cid) ==
    IF c.parent # 0 THEN Ref("Binding", c.parent) ELSE Ref("Context", cid)

\* Context.true(self): self._operator('equal', True)
Context_true ==
    \E cid \in HeldContexts \ held.c :
        /\ contexts' = [contexts EXCEPT ![cid] = Context_operator(@, "equal", True)]
        /\ last' = Call("true", cid, <<>>, Context_operator_ret(contexts[cid], cid))
        /\ UNCHANGED <<bindings, keymaps, held>>

\* the operands the client compares with
Operands == { Num(42), Str("_$") }

\* Context.__getattr__(self, name)(operand) for a name of _OPERATORS:
\* partial(self._operator, name), called with the operand
Operator ==
    \E cid \in HeldContexts, n \in DOMAIN Context_OPERATORS, operand \in Operands :
        /\ contexts' = [contexts EXCEPT ![cid] = Context_operator(@, Context_OPERATORS[n], operand)]
        /\ last' = Call(Context_OPERATORS[n], cid, <<operand>>,
                        Context_operator_ret(contexts[cid], cid))
        /\ UNCHANGED <<bindings, keymaps, held>>

----------------------------------------------------------------------------
(* The values of the nodes: what structural equality compares *)

ContextValue(cs, c) ==
    [key |-> cs[c].key, operator |-> cs[c].operator, operand |-> cs[c].operand,
     match_all |-> cs[c].match_all]

BindingValue(cs, bs, b) ==
    [keys |-> bs[b].keys, command |-> bs[b].command, args |-> bs[b].args,
     context |-> [i \in DOMAIN bs[b].context |-> ContextValue(cs, bs[b].context[i])]]

BindingValues(cs, bs, ids) == [i \in DOMAIN ids |-> BindingValue(cs, bs, ids[i])]

\* x == y for a Context or a Binding x: neither class defines __eq__, so this
\* is object.__eq__, the identity of the two objects; any other y (a str) is
\* not that object
object_eq(x, y) == IF x = y THEN True ELSE False

\* first == second, for the objects of the client and the str 'foo'
Eq ==
    \E x \in {Ref("Context", c) : c \in DOMAIN contexts}
                \cup {Ref("Binding", b) : b \in DOMAIN bindings},
       y \in {Ref("Context", c) : c \in DOMAIN contexts}
                \cup {Ref("Binding", b) : b \in DOMAIN bindings} \cup {Str("foo")} :
        /\ last' = Call("eq", x.v, <<x, y>>, object_eq(x, y))
        /\ UNCHANGED <<contexts, bindings, keymaps, held>>

----------------------------------------------------------------------------
(* Keymap._preprocess: deepcopy, lflatten, _apply_common_context,           *)
(* _apply_default_match_all                                                 *)

\* Keymap.__iter__: iterating a Keymap yields its _bindings.  An argument
\* that is a Keymap is written as the iterable of the references it yields.
Keymap_iter(km) == [i \in DOMAIN km.bindings |-> Ref("Binding", km.bindings[i])]

RECURSIVE Iterables(_, _)
Iterables(kms, items) ==
    [i \in DOMAIN items |->
        IF items[i].t = "Keymap" THEN [t |-> "Keymap", v |-> Keymap_iter(kms[items[i].v])]
        ELSE IF items[i].t \in {"list", "tuple"}
             THEN [t |-> items[i].t, v |-> Iterables(kms, items[i].v)]
             ELSE items[i]]

\* the Binding objects a structure of lists, tuples and Keymaps refers to
RECURSIVE BindingsIn(_)
BindingsIn(items) ==
    UNION { IF items[i].t = "Binding" THEN {items[i].v} ELSE BindingsIn(items[i].v)
            : i \in DOMAIN items }

\* the same structure with every reference replaced by its copy
RECURSIVE Renamed(_, _)
Renamed(items, memo) ==
    [i \in DOMAIN items |->
        IF items[i].t = "Binding" THEN Ref("Binding", memo[items[i].v])
        ELSE [t |-> items[i].t, v |-> Renamed(items[i].v, memo)]]

\* the elements of a set of object ids as a sequence, in increasing order
RECURSIVE Sorted(_)
Sorted(S) ==
    IF S = {} THEN <<>>
    ELSE LET m == CHOOSE x \in S : \A y \in S : x <= y
         IN <<m>> \o Sorted(S \ {m})

IndexOf(s, x) == CHOOSE i \in DOMAIN s : s[i] = x

\* the bindings reachable from B: B and the parents of their conditions
RECURSIVE Reachable(_, _, _)
Reachable(cs, bs, B) ==
    LET P == {cs[c].parent : c \in UNION {Range(bs[b].context) : b \in B}} \ {0}
    IN  IF P \subseteq B THEN B ELSE Reachable(cs, bs, B \cup P)

\* a wrong version, copy.copy of every binding: the copies share the
\* conditions of the originals
shallowcopy(cs, bs, items) ==
    LET oldB == Sorted(Reachable(cs, bs, BindingsIn(items)))
        memoB == [b \in Range(oldB) |-> Len(bs) + IndexOf(oldB, b)]
        newB == [i \in DOMAIN oldB |-> bs[oldB[i]]]
    IN  [cs |-> cs, bs |-> bs \o newB, items |-> Renamed(items, memoB)]

\* copy.deepcopy(bindings): every object reachable from the arguments is copied
\* once (the memo), so an object that occurs twice is one copy that occurs
\* twice.  Only Binding and Context objects are kept on the heap: the copy of a
\* Keymap is dropped as soon as lflatten has iterated it.
deepcopy(cs, bs, items) ==
    LET oldB == Sorted(Reachable(cs, bs, BindingsIn(items)))
        oldC == Sorted(UNION {Range(bs[oldB[i]].context) : i \in DOMAIN oldB})
        memoB == [b \in Range(oldB) |-> Len(bs) + IndexOf(oldB, b)]
        memoC == [c \in Range(oldC) |-> Len(cs) + IndexOf(oldC, c)]
        newB == [i \in DOMAIN oldB |->
                    [bs[oldB[i]] EXCEPT !.context = [j \in DOMAIN @ |-> memoC[@[j]]]]]
        newC == [i \in DOMAIN oldC |->
                    [cs[oldC[i]] EXCEPT !.parent = IF @ = 0 THEN 0 ELSE memoB[@]]]
    IN  [cs |-> cs \o newC, bs |-> bs \o newB, items |-> Renamed(items, memoB)]

\* follow=isa(list, tuple, Keymap)
follow(item) == item.t \in {"list", "tuple", "Keymap"}

\* a wrong version: the elements of a nested sequence come after the
\* elements of the sequence that holds it
RECURSIVE lflatten_nested_last(_)
lflatten_nested_last(seq) ==
    LET direct == SelectSeq(seq, LAMBDA item : ~follow(item))
        nested == SelectSeq(seq, LAMBDA item : follow(item))
        RECURSIVE each(_)
        each(ns) == IF ns = <<>> THEN <<>>
                    ELSE lflatten_nested_last(Head(ns).v) \o each(Tail(ns))
    IN  [i \in DOMAIN direct |-> direct[i].v] \o each(nested)

\* funcy.lflatten(seq, follow)
RECURSIVE lflatten(_)
lflatten(seq) ==
    IF seq = <<>> THEN <<>>
    ELSE (IF follow(Head(seq)) THEN lflatten(Head(seq).v) ELSE <<Head(seq).v>>)
         \o lflatten(Tail(seq))

\* Keymap._apply_common_context: binding.context.extend(self._common_context)
\* for every element of the list, one after the other
RECURSIVE Keymap_apply_common_context(_, _, _)
Keymap_apply_common_context(bs, flat, common) ==
    IF flat = <<>> THEN bs
    ELSE Keymap_apply_common_context(
            [bs EXCEPT ![Head(flat)].context = @ \o common], Tail(flat), common)

\* a wrong version: the default overwrites a match_all set by all() or any()
Keymap_apply_default_match_all_overwrite(cs, bs, flat, default) ==
    LET batch == UNION {Range(bs[b].context) : b \in Range(flat)}
    IN  [c \in DOMAIN cs |->
            IF c \in batch THEN [cs[c] EXCEPT !.match_all = default] ELSE cs[c]]

\* Keymap._apply_default_match_all
Keymap_apply_default_match_all(cs, bs, flat, default) ==
    LET batch == UNION {Range(bs[b].context) : b \in Range(flat)}
    IN  [c \in DOMAIN cs |->
            IF c \in batch /\ cs[c].match_all = None
            THEN [cs[c] EXCEPT !.match_all = default]
            ELSE cs[c]]

\* Keymap._preprocess(self, bindings)
Keymap_preprocess(cs, bs, kms, default, common, args) ==
    LET copy == deepcopy(cs, bs, Iterables(kms, args))
        flat == lflatten(copy.items)
        bs2 == Keymap_apply_common_context(copy.bs, flat, common)
        cs2 == Keymap_apply_default_match_all(copy.cs, bs2, flat, default)
    IN  [cs |-> cs2, bs |-> bs2, result |-> flat]

----------------------------------------------------------------------------
(* The container *)

\* what the client passes as *bindings: its own bindings and its keymaps,
\* flat or nested in lists and tuples
Atoms == {Ref("Binding", b) : b \in held.b} \cup {Ref("Keymap", k) : k \in DOMAIN keymaps}

\* nothing, x, (x, y) or [([x],), b] with b one of the client's bindings
ArgShapes ==
    { <<>> }
    \cup { <<x>> : x \in Atoms }
    \cup { <<x, y>> : x \in Atoms, y \in Atoms }
    \cup { <<List(<<Tuple(<<List(<<x>>)>>), Ref("Binding", b)>>)>> : x \in Atoms, b \in held.b }

\* what the client passes as common_context: its own conditions, in the order
\* it made them
CommonChoices == { <<>>, Sorted(held.c) }

\* the heap has room for the copies deepcopy makes of the arguments
HeapHasRoom(args) ==
    LET B == Reachable(contexts, bindings, BindingsIn(Iterables(keymaps, args)))
        C == UNION {Range(bindings[b].context) : b \in B}
    IN  /\ Len(bindings) + Cardinality(B) <= MaxBindings
        /\ Len(contexts) + Cardinality(C) <= MaxContexts

\* Keymap.__init__(self, *bindings, default_match_all=None, common_context=[])
Keymap_init(limit) ==
    /\ Len(keymaps) < limit
    /\ \E args \in ArgShapes, default \in Defaults, common \in CommonChoices :
        /\ HeapHasRoom(args)
        /\ \E p \in {Keymap_preprocess(contexts, bindings, keymaps, default, common, args)} :
            LET id == Len(keymaps) + 1 IN
            /\ contexts' = p.cs
            /\ bindings' = p.bs
            /\ keymaps' = Append(keymaps,
                    [default_match_all |-> default, common_context |-> common,
                     bindings |-> p.result])
            /\ last' = Call("Keymap", id, args, Ref("Keymap", id))
            /\ UNCHANGED held

\* what Keymap.extend returns: it has no return statement
Keymap_extend_ret(id) == None

\* a wrong version: the processed bindings replace the stored ones
Keymap_bindings_replace(stored, processed) == processed

\* self._bindings.extend(self._preprocess(bindings))
Keymap_bindings_extend(stored, processed) == stored \o processed

\* Keymap.extend(self, *bindings)
Keymap_extend(id, args, op) ==
    /\ HeapHasRoom(args)
    /\ \E p \in {Keymap_preprocess(contexts, bindings, keymaps,
                    keymaps[id].default_match_all, keymaps[id].common_context, args)} :
        /\ contexts' = p.cs
        /\ bindings' = p.bs
        /\ keymaps' = [keymaps EXCEPT ![id].bindings = Keymap_bindings_extend(@, p.result)]
        /\ last' = Call(op, id, args, Keymap_extend_ret(id))
        /\ UNCHANGED held

Extend ==
    \E id \in DOMAIN keymaps, args \in ArgShapes : Keymap_extend(id, args, "extend")

\* Keymap.__lshift__(self, binding): self.extend([binding])
Lshift ==
    \E id \in DOMAIN keymaps, b \in held.b :
        Keymap_extend(id, <<List(<<Ref("Binding", b)>>)>>, "lshift")

\* Keymap.__len__(self)
Keymap_len(km) == Len(km.bindings)

----------------------------------------------------------------------------
(* The serializer: KeymapJSONEncoder and jsonify *)

\* A Python str that is the name of a keyword argument is the sequence of its
\* characters, so that sorted() can compare two of them as Python does: by the
\* code points, left to right, a proper prefix first.
Ord == [a |-> 97, b |-> 98, c |-> 99, o |-> 111, z |-> 122]

RECURSIVE str_lt(_, _)
str_lt(s, t) ==
    IF t = <<>> THEN FALSE
    ELSE IF s = <<>> THEN TRUE
    ELSE IF Ord[Head(s)] # Ord[Head(t)] THEN Ord[Head(s)] < Ord[Head(t)]
    ELSE str_lt(Tail(s), Tail(t))

\* first(t): the key of an item of dic.items()
first(t) == t[1]

\* sorted(items, key=first): a stable sort
RECURSIVE sorted(_)
sorted(items) ==
    IF items = <<>> THEN <<>>
    ELSE LET rest == sorted(SubSeq(items, 1, Len(items) - 1))
             x == items[Len(items)]
             before == SelectSeq(rest, LAMBDA y : ~str_lt(first(x), first(y)))
             after == SelectSeq(rest, LAMBDA y : str_lt(first(x), first(y)))
         IN  before \o <<x>> \o after

\* a wrong version: the items stay in insertion order
sort_dict_unsorted(dic) == dic

\* sort_dict(dic): OrderedDict(sorted(dic.items(), key=first))
sort_dict(dic) == Dict(sorted(dic.v))

\* isempty(obj): len(obj) == 0
isempty(obj) == Len(obj.v) = 0

\* isnone
isnone(obj) == obj = None

\* all_fn(isa(list, dict), isempty): a tuple is neither a list nor a dict
is_empty_list_or_dict(obj) == obj.t \in {"list", "dict"} /\ isempty(obj)

\* the values of the pairs of col
values(col) == {col[i][2] : i \in DOMAIN col}

\* remove_values(pred, col): select_values(complement(pred), col); pred is
\* given as its truth table on the values of col
remove_values(pred, col) == SelectSeq(col, LAMBDA pair : ~pred[pair[2]])

\* walk_values(iffy(isa(dict), sort_dict), col)
walk_sort_dicts(col) ==
    [i \in DOMAIN col |-> <<col[i][1], IF col[i][2].t = "dict" THEN sort_dict(col[i][2]) ELSE col[i][2]>>]

\* getattr(obj, attr) for the attributes the encoder reads
getattr(cs, bs, obj, attr) ==
    IF obj.t = "Context" THEN
        CASE attr = "key" -> cs[obj.v].key
          [] attr = "operator" -> cs[obj.v].operator
          [] attr = "operand" -> cs[obj.v].operand
          [] attr = "match_all" -> cs[obj.v].match_all
    ELSE
        CASE attr = "keys" -> bs[obj.v].keys
          [] attr = "command" -> bs[obj.v].command
          [] attr = "args" -> bs[obj.v].args
          [] attr = "context" ->
                List([i \in DOMAIN bs[obj.v].context |-> Ref("Context", bs[obj.v].context[i])])

Context_attrs == << "key", "operator", "operand", "match_all" >>
Binding_attrs == << "keys", "command", "args", "context" >>

\* ordered_attrs(attrs) of KeymapJSONEncoder.default: the pairs (attr, value)
\* in the order of attrs, without the None values and the empty lists and
\* dicts, every dict sorted
ordered_attrs(cs, bs, obj, attrs) ==
    LET pairs == [i \in DOMAIN attrs |-> <<attrs[i], getattr(cs, bs, obj, attrs[i])>>]
        set == remove_values([v \in values(pairs) |-> isnone(v)], pairs)
        full == remove_values([v \in values(set) |-> is_empty_list_or_dict(v)], set)
    IN  walk_sort_dicts(full)

\* KeymapJSONEncoder.default(obj) for a Context or a Binding
KeymapJSONEncoder_default(cs, bs, obj) ==
    Dict(ordered_attrs(cs, bs, obj, IF obj.t = "Context" THEN Context_attrs ELSE Binding_attrs))

\* json.dumps(obj, cls=KeymapJSONEncoder): the JSON value written, as a tree.
\* None is null, True and False are true and false, a list or a tuple is an
\* array, a dict is an object with its items in their order, a Context or a
\* Binding is what default() makes of it.  The layout of the text (indent) is
\* left out.
RECURSIVE json_dumps(_, _, _)
json_dumps(cs, bs, obj) ==
    CASE obj.t = "NoneType" -> [j |-> "null", v |-> 0]
      [] obj.t = "bool" -> [j |-> IF obj.v = 1 THEN "true" ELSE "false", v |-> 0]
      [] obj.t = "int" -> [j |-> "number", v |-> obj.v]
      [] obj.t = "str" -> [j |-> "string", v |-> obj.v]
      [] obj.t \in {"list", "tuple"} ->
            [j |-> "array", v |-> [i \in DOMAIN obj.v |-> json_dumps(cs, bs, obj.v[i])]]
      [] obj.t = "dict" ->
            [j |-> "object",
             v |-> [i \in DOMAIN obj.v |-> <<obj.v[i][1], json_dumps(cs, bs, obj.v[i][2])>>]]
      [] obj.t \in {"Context", "Binding"} ->
            json_dumps(cs, bs, KeymapJSONEncoder_default(cs, bs, obj))

\* jsonify(self, indent=2, **kwargs)
jsonify(cs, bs, obj) == json_dumps(cs, bs, obj)

\* str(binding), str(context), jsonify(node)
Jsonify ==
    \E obj \in {Ref("Binding", b) : b \in DOMAIN bindings}
                \cup {Ref("Context", c) : c \in DOMAIN contexts} :
        /\ last' = Call("jsonify", obj.v, obj, jsonify(contexts, bindings, obj))
        /\ UNCHANGED <<contexts, bindings, keymaps, held>>

----------------------------------------------------------------------------
(* The specifications *)

\* SpecJson: one binding, built in every way the inputs below allow, and its
\* conditions are serialized
ArgNames == << <<"z">>, <<"o">>, <<"a">>, <<"c">>, <<"a", "b">>, <<"b">> >>

\* to(command, **args): the keyword arguments in the order given, the n-th
\* name of ArgNames with the value n
ArgDicts ==
    LET N == 1..(IF MaxArgs < Len(ArgNames) THEN MaxArgs ELSE Len(ArgNames))
        orders == UNION {{f \in [1..n -> N] : \A i, j \in 1..n : f[i] = f[j] => i = j}
                            : n \in 0..Cardinality(N)}
    IN  {[i \in DOMAIN f |-> <<ArgNames[f[i]], Num(f[i])>>] : f \in orders}

\* when('foo') followed by nothing, true(), false(), regex_contains('_$'),
\* equal(42), equal([]) or equal(()), and by nothing, all() or any()
JsonContexts ==
    LET made == Context_init("foo", 1)
        compared == {made, Context_operator(made, "equal", True),
                     Context_operator(made, "equal", False),
                     Context_operator(made, "regex_contains", Str("_$")),
                     Context_operator(made, "equal", Num(42)),
                     Context_operator(made, "equal", List(<<>>)),
                     Context_operator(made, "equal", Tuple(<<>>))}
    IN  UNION {{c, Context_all(c), Context_any(c)} : c \in compared}

JsonBindings ==
    LET made == {Binding_init(keys) : keys \in {<<>>, <<"x">>, <<"x", "y">>}}
    IN  made \cup {Binding_to(b, "fire", args) : b \in made, args \in ArgDicts}

InitJson ==
    /\ bindings \in {<<b>> : b \in JsonBindings}
                    \cup {<<[b EXCEPT !.context = <<1>>]>> : b \in JsonBindings}
    /\ contexts \in IF bindings[1].context = <<>> THEN {<<>>}
                     ELSE {<<c>> : c \in JsonContexts}
    /\ keymaps = <<>>
    /\ held = [b |-> {1}, c |-> {}]
    /\ last = Call("start", 0, <<>>, None)

NextJson == Jsonify

SpecJson == InitJson /\ [][NextJson]_vars

\* SpecBuilder: the client builds bindings and conditions, no container yet
NextBuilder == Bind \/ To \/ When \/ NewContext \/ All \/ Any \/ Context_true

SpecBuilder == InitBuilder /\ [][NextBuilder]_vars

\* SpecOperators: the client has made context('abc') and bind('x', 'y') and
\* goes on with when(), any() and the comparison operators
InitOperators ==
    /\ contexts = << Context_init("abc", 0) >>
    /\ bindings = << Binding_init(<<"x", "y">>) >>
    /\ keymaps = <<>>
    /\ held = [b |-> {1}, c |-> {1}]
    /\ last = Call("Binding", 1, <<"x", "y">>, Ref("Binding", 1))

NextOperators == When \/ Any \/ Operator

SpecOperators == InitOperators /\ [][NextOperators]_vars

\* SpecEq: the client has made two bindings, each with one condition,
\* and compares its objects with ==
\*     first = Binding('x', 'y') or Binding('x'), perhaps .to('fire', a=42)
\*     first.when('foo') or when('bar'), perhaps .any(), perhaps .equal(42)
EqBindings ==
    LET made == {Binding_init(<<"x", "y">>), Binding_init(<<"x">>)}
    IN  made \cup {Binding_to(b, "fire", << << <<"a">>, Num(42) >> >>) : b \in made}

EqContexts(parent) ==
    LET made == {Context_init("foo", parent), Context_init("bar", parent)}
        scoped == made \cup {Context_any(c) : c \in made}
    IN  scoped \cup {Context_operator(c, "equal", Num(42)) : c \in scoped}

InitEq ==
    /\ contexts \in {<<c1, c2>> : c1 \in EqContexts(1), c2 \in EqContexts(2)}
    /\ bindings \in {<<[b1 EXCEPT !.context = <<1>>], [b2 EXCEPT !.context = <<2>>]>>
                        : b1 \in EqBindings, b2 \in EqBindings}
    /\ keymaps = <<>>
    /\ held = [b |-> {1, 2}, c |-> {}]
    /\ last = Call("start", 0, <<>>, None)

NextEq == Eq

SpecEq == InitEq /\ [][NextEq]_vars

\* what the client has built before it makes a container:
\*     b1 = bind('x', 'y').to('fire', a=42); b1.when('foo').true()
\*     b2 = bind()
\*     c = context('abc')
\* with all() or any() called on each of b1's condition and c, or not
Built(foo, abc) ==
    /\ contexts = << foo, abc >>
    /\ bindings = << [Binding_to(Binding_init(<<"x", "y">>), "fire", << << <<"a">>, Num(42) >> >>)
                        EXCEPT !.context = <<1>>],
                     Binding_init(<<>>) >>
    /\ keymaps = <<>>
    /\ held = [b |-> {1, 2}, c |-> {2}]
    /\ last = Call("start", 0, <<>>, None)

Scoped(c) == {c, Context_all(c), Context_any(c)}

\* Spec: one container, made from the client's objects and extended
Init ==
    \E foo \in Scoped(Context_operator(Context_init("foo", 1), "equal", True)),
       abc \in Scoped(Context_init("abc", 0)) : Built(foo, abc)

Next == Keymap_init(1) \/ Extend \/ Lshift

Spec == Init /\ [][Next]_vars

\* SpecMutate: one container, and the client goes on building on the bindings
\* it has given to it
\*     b1 = bind('x', 'y'); b1.when('foo'); c = context('abc')
InitMutate ==
    /\ contexts = << Context_init("foo", 1), Context_init("abc", 0) >>
    /\ bindings = << [Binding_init(<<"x", "y">>) EXCEPT !.context = <<1>>] >>
    /\ keymaps = <<>>
    /\ held = [b |-> {1}, c |-> {2}]
    /\ last = Call("start", 0, <<>>, None)

NextMutate ==
    \/ Keymap_init(1) \/ Lshift
    \/ To \/ When \/ All \/ Any \/ Context_true

SpecMutate == InitMutate /\ [][NextMutate]_vars

\* SpecNested: several containers, built from the client's objects and from
\* one another
InitNested ==
    Built(Context_operator(Context_init("foo", 1), "equal", True), Context_init("abc", 0))

NextNested == Keymap_init(MaxKeymaps)

SpecNested == InitNested /\ [][NextNested]_vars

----------------------------------------------------------------------------
(* What a call of Keymap(...), extend(...) or << did, read off a step *)

\* the step is the return of Keymap.__init__, Keymap.extend or Keymap.__lshift__
Preprocessed == last'.op \in {"Keymap", "extend", "lshift"}

\* the bindings given to the call, flattened: objects of the state before the call
Given == lflatten(Iterables(keymaps, last'.args))

\* the bindings the container stored before the call, and the ones the call added
StoredBefore == IF last'.op = "Keymap" THEN <<>> ELSE keymaps[last'.self].bindings
Added ==
    LET all == keymaps'[last'.self].bindings
    IN  SubSeq(all, Len(StoredBefore) + 1, Len(all))

\* the condition of the input that the j-th condition of the i-th added binding
\* comes from: the j-th condition of the given binding, or else a common one
InputCondition(i, j) ==
    LET own == bindings[Given[i]].context
        common == keymaps'[last'.self].common_context
    IN  IF j <= Len(own) THEN own[j]
        ELSE common[((j - Len(own) - 1) % Len(common)) + 1]

----------------------------------------------------------------------------
(* C1 *)

\* C1: after Keymap(...) and after every extend, each condition of each added
\* binding (the injected common conditions too) whose match_all was None in
\* the input has the container's default_match_all, and each one whose
\* match_all was set by all() or any() keeps it; the conditions of the
\* bindings stored before keep their match_all; and a container whose
\* default is None changes no match_all at all.
C1_DefaultMatchAll ==
    [][Preprocessed =>
        LET default == keymaps'[last'.self].default_match_all IN
        /\ Len(Added) = Len(Given)
        /\ \A i \in DOMAIN Added : \A j \in DOMAIN bindings'[Added[i]].context :
                LET was == contexts[InputCondition(i, j)].match_all
                    is == contexts'[bindings'[Added[i]].context[j]].match_all
                IN  is = IF was = None THEN default ELSE was
        /\ \A b \in Range(StoredBefore) : \A c \in Range(bindings[b].context) :
                /\ contexts'[c].match_all = contexts[c].match_all
                /\ default # None => contexts[c].match_all # None
        /\ default = None =>
                \A c \in DOMAIN contexts : contexts'[c].match_all = contexts[c].match_all
    ]_vars

\* a container with default True has just stored the client's first binding:
\* its own condition was any() and stays False, the common condition was
\* unset and is now True
C1_Witness ==
    /\ last.op \in {"Keymap", "extend"}
    /\ keymaps[last.self].default_match_all = True
    /\ \E b \in Range(keymaps[last.self].bindings) :
            /\ Len(bindings[b].context) = 2
            /\ contexts[bindings[b].context[1]].match_all = False
            /\ bindings[b].context[2] \in held.c
            /\ contexts[bindings[b].context[2]].match_all = True

----------------------------------------------------------------------------
(* C2 *)

\* the attributes of a condition that preprocessing never writes
Unscoped(c) == [key |-> c.key, operator |-> c.operator, operand |-> c.operand]

\* the context of the i-th added binding is the context of the given binding
\* followed by the common conditions, each once
InjectedOnce(i) ==
    LET own == bindings[Given[i]].context
        common == keymaps'[last'.self].common_context
        now == bindings'[Added[i]].context
    IN  /\ Len(now) = Len(own) + Len(common)
        /\ \A j \in DOMAIN now :
                Unscoped(contexts'[now[j]]) =
                    Unscoped(contexts[IF j <= Len(own) THEN own[j] ELSE common[j - Len(own)]])

\* C2: after Keymap(...) and after every extend, the context of each added
\* binding is the conditions it had in the input, in their order, followed by
\* the container's common conditions, in their order, injected exactly once;
\* the bindings stored before are not injected again.
C2_CommonContextOnce ==
    [][Preprocessed =>
        /\ Len(Added) = Len(Given)
        /\ \A i \in DOMAIN Added : InjectedOnce(i)
        /\ \A b \in Range(StoredBefore) : bindings'[b].context = bindings[b].context
    ]_vars

\* the same, for the calls that are given no Binding object twice
C2_CommonContextOnce_NoRepeat ==
    [][Preprocessed /\ (\A i, j \in DOMAIN Given : Given[i] = Given[j] => i = j) =>
        /\ Len(Added) = Len(Given)
        /\ \A i \in DOMAIN Added : InjectedOnce(i)
        /\ \A b \in Range(StoredBefore) : bindings'[b].context = bindings[b].context
    ]_vars

----------------------------------------------------------------------------
(* C3 *)

\* C3: Keymap(...) and extend leave the client's common conditions as they
\* were, no stored binding holds a condition object of the client, and no two
\* stored bindings share a condition object.
C3_CommonContextCopied ==
    [][Preprocessed =>
        LET stored == keymaps'[last'.self].bindings IN
        /\ \A c \in held.c : contexts'[c] = contexts[c]
        /\ \A b \in Range(stored) : Range(bindings'[b].context) \cap held.c = {}
        /\ \A a, b \in Range(stored) :
                a # b => Range(bindings'[a].context) \cap Range(bindings'[b].context) = {}
    ]_vars

----------------------------------------------------------------------------
(* C4 *)

\* the bindings of all containers
Stored(kms) == UNION {Range(kms[k].bindings) : k \in DOMAIN kms}

----------------------------------------------------------------------------
(* C5 *)

\* the Binding references of a structure, left to right
RECURSIVE LeftToRight(_)
LeftToRight(items) ==
    IF Len(items) = 0 THEN <<>>
    ELSE LET front == LeftToRight(SubSeq(items, 1, Len(items) - 1))
             e == items[Len(items)]
         IN  front \o (IF e.t = "Binding" THEN <<e>> ELSE LeftToRight(e.v))

\* C5: preprocessing a nested structure of lists, tuples and Keymaps stores
\* bindings equal, one by one and in order, to those that preprocessing the
\* left-to-right sequence of its bindings gives; a nested Keymap stands for
\* its stored bindings in their order.
C5_Flatten ==
    [][Preprocessed =>
        LET km == keymaps'[last'.self] IN
        \A p \in {Keymap_preprocess(contexts, bindings, keymaps, km.default_match_all,
                    km.common_context, LeftToRight(Iterables(keymaps, last'.args)))} :
            BindingValues(contexts', bindings', Added) = BindingValues(p.cs, p.bs, p.result)
    ]_vars

\* a Keymap has just been made from a list that holds a Keymap three levels
\* deep and then a binding, and has stored what the Keymap held and then the
\* copy of that binding
C5_Witness ==
    /\ last.op = "Keymap"
    /\ Len(last.args) = 1
    /\ last.args[1].t = "list"
    /\ last.args[1].v[1].v[1].v[1].t = "Keymap"
    /\ last.args[1].v[2].t = "Binding"
    /\ Len(keymaps[last.args[1].v[1].v[1].v[1].v].bindings) = 1
    /\ Len(keymaps[last.self].bindings) = 2
    /\ bindings[keymaps[last.self].bindings[1]].keys # bindings[keymaps[last.self].bindings[2]].keys

----------------------------------------------------------------------------
(* C6 *)

\* C6: Keymap(...) and every extend make the length of the container the
\* length before plus the number of bindings given, flattened; iterating
\* yields the bindings stored before, the same objects with the same values in
\* the same order, and then the added ones in the order given.
C6_LengthAndOrder ==
    [][Preprocessed =>
        LET km == keymaps'[last'.self] IN
        /\ Keymap_len(km) = Len(StoredBefore) + Len(Given)
        /\ Keymap_iter(km) =
                [i \in DOMAIN StoredBefore |-> Ref("Binding", StoredBefore[i])]
                \o [i \in DOMAIN Added |-> Ref("Binding", Added[i])]
        /\ BindingValues(contexts', bindings', StoredBefore)
                = BindingValues(contexts, bindings, StoredBefore)
        /\ \A i \in DOMAIN Added : bindings'[Added[i]].keys = bindings[Given[i]].keys
    ]_vars

\* an extend has just added a second binding, with other keys, to a container
\* that held one
C6_Witness ==
    /\ last.op = "extend"
    /\ Len(last.args) = 1
    /\ Keymap_len(keymaps[last.self]) = 2
    /\ bindings[keymaps[last.self].bindings[1]].keys # bindings[keymaps[last.self].bindings[2]].keys

----------------------------------------------------------------------------
(* C7 *)

\* C7: Keymap.extend returns the container itself.
C7_ExtendReturnsSelf ==
    last.op = "extend" => last.ret = Ref("Keymap", last.self)

----------------------------------------------------------------------------
(* C8 *)

\* the node that has just been serialized, its attributes and the items of
\* the JSON object written for it
Serialized == last.args
SerializedAttrs == IF Serialized.t = "Context" THEN Context_attrs ELSE Binding_attrs
Written == last.ret.v
WrittenNames == {Written[i][1] : i \in DOMAIN Written}
WrittenValue(name) == Written[CHOOSE i \in DOMAIN Written : Written[i][1] = name][2]

\* C8: in the serialized form of a Context or a Binding an attribute is left
\* out exactly when its value is None, an empty sequence or an empty mapping;
\* no attribute is written as null; False is written as false and True as true
\* (operand, and match_all for any() and all()).
C8_OmitsNoneAndEmpty ==
    last.op = "jsonify" =>
        \A i \in DOMAIN SerializedAttrs :
            LET attr == SerializedAttrs[i]
                value == getattr(contexts, bindings, Serialized, attr)
                empty == \/ value = None
                         \/ value.t \in {"list", "tuple"} /\ Len(value.v) = 0
                         \/ value.t = "dict" /\ Len(value.v) = 0
            IN  /\ attr \in WrittenNames <=> ~empty
                /\ attr \in WrittenNames =>
                    /\ WrittenValue(attr).j # "null"
                    /\ value = False => WrittenValue(attr).j = "false"
                    /\ value = True => WrittenValue(attr).j = "true"

\* what the encoder does: the same, but an empty tuple (the keys of a Binding
\* made without keys, an operand ()) is written, as an empty array
C8_OmitsNoneEmptyListAndDict ==
    last.op = "jsonify" =>
        \A i \in DOMAIN SerializedAttrs :
            LET attr == SerializedAttrs[i]
                value == getattr(contexts, bindings, Serialized, attr)
                empty == \/ value = None
                         \/ value.t \in {"list", "dict"} /\ Len(value.v) = 0
            IN  /\ attr \in WrittenNames <=> ~empty
                /\ attr \in WrittenNames =>
                    /\ WrittenValue(attr).j # "null"
                    /\ value = False => WrittenValue(attr).j = "false"
                    /\ value = True => WrittenValue(attr).j = "true"

----------------------------------------------------------------------------
(* C9 *)

\* C9: the args of a binding are written with their names in sorted order,
\* whatever the order they were given to to() in, each name with its value.
C9_ArgsSorted ==
    last.op = "jsonify" /\ Serialized.t = "Binding" /\ "args" \in WrittenNames =>
        LET given == bindings[Serialized.v].args.v
            written == WrittenValue("args").v
        IN  /\ WrittenValue("args").j = "object"
            /\ Len(written) = Len(given)
            /\ \A i, j \in DOMAIN written : i < j => str_lt(written[i][1], written[j][1])
            /\ {<<given[i][1], json_dumps(contexts, bindings, given[i][2])>> : i \in DOMAIN given}
                    = Range(written)

\* to('fire', z=1, o=2, a=3, c=4) has been written as a=3, c=4, o=2, z=1
C9_Witness ==
    /\ last.op = "jsonify"
    /\ Serialized.t = "Binding"
    /\ bindings[Serialized.v].args =
            Dict(<< << <<"z">>, Num(1) >>, << <<"o">>, Num(2) >>,
                    << <<"a">>, Num(3) >>, << <<"c">>, Num(4) >> >>)
    /\ "args" \in WrittenNames
    /\ WrittenValue("args").v =
            << << <<"a">>, [j |-> "number", v |-> 3] >>, << <<"c">>, [j |-> "number", v |-> 4] >>,
               << <<"o">>, [j |-> "number", v |-> 2] >>, << <<"z">>, [j |-> "number", v |-> 1] >> >>

----------------------------------------------------------------------------
(* C10 *)

\* C10: Binding() without keys raises InvalidBinding and makes no binding, so
\* every Binding has at least one key.
C10_NoKeysRaises ==
    /\ last.op = "Binding" /\ last.args = <<>> => last.raised = "InvalidBinding"
    /\ \A b \in DOMAIN bindings : Len(bindings[b].keys.v) > 0

----------------------------------------------------------------------------
(* C11 *)

\* the step is the return of one of the six comparison operators
Compared == last'.op \in Range(Context_OPERATORS)

\* C11: each of the six operators, called with any operand on a condition,
\* sets operator and operand to what this call was given, leaves key and
\* match_all (and every other object) as they were, and returns the binding
\* the condition was made by when() of, or the condition itself if it was
\* made by context(); when() appends its new condition to the binding's
\* context, so the conditions of a chain are stored in the order of the
\* when()/also() calls.
C11_OperatorSetsAndReturns ==
    [][/\ Compared =>
            LET cid == last'.self
                was == contexts[cid]
                is == contexts'[cid]
            IN  /\ is.operator = Str(last'.op)
                /\ is.operand = last'.args[1]
                /\ is.key = was.key
                /\ is.match_all = was.match_all
                /\ is.parent = was.parent
                /\ \A c \in DOMAIN contexts : c # cid => contexts'[c] = contexts[c]
                /\ DOMAIN contexts' = DOMAIN contexts
                /\ bindings' = bindings
                /\ last'.ret = IF was.parent \in held.b
                                THEN Ref("Binding", was.parent) ELSE Ref("Context", cid)
                /\ was.parent \in held.b => cid \in Range(bindings[was.parent].context)
                /\ was.parent \notin held.b => cid \in held.c
       /\ last'.op = "when" =>
            /\ last'.ret = Ref("Context", Len(contexts) + 1)
            /\ bindings'[last'.self].context = Append(bindings[last'.self].context, last'.ret.v)
            /\ contexts'[last'.ret.v].parent = last'.self
    ]_vars

\* bind('x', 'y').when('foo').equal(42).also('bar').regex_contains('_$'): the
\* last call has returned the binding, whose context is [foo, bar]
C11_Witness ==
    /\ last.op = "regex_contains"
    /\ last.ret = Ref("Binding", 1)
    /\ Len(bindings[1].context) = 2
    /\ \E foo \in {contexts[bindings[1].context[1]]}, bar \in {contexts[bindings[1].context[2]]} :
            /\ foo.key = Str("foo") /\ foo.operator = Str("equal") /\ foo.operand = Num(42)
            /\ bar.key = Str("bar") /\ bar.operator = Str("regex_contains")
            /\ bar.operand = Str("_$")

----------------------------------------------------------------------------
(* C12 *)

\* structural equality of two values: two Contexts with equal key, operator,
\* operand and match_all, or two Bindings with equal keys, command, args and
\* conditions equal one by one in order
StructurallyEqual(x, y) ==
    /\ x.t = y.t
    /\ x.t = "Context" => ContextValue(contexts, x.v) = ContextValue(contexts, y.v)
    /\ x.t = "Binding" => BindingValue(contexts, bindings, x.v) = BindingValue(contexts, bindings, y.v)

\* C12: first == second is True exactly when the two are Contexts with equal
\* key, operator, operand and match_all (whatever their parents), or Bindings
\* with equal keys, command, args and context; a node never equals a value of
\* another type.
C12_StructuralEquality ==
    last.op = "eq" =>
        last.ret = IF StructurallyEqual(last.args[1], last.args[2]) THEN True ELSE False

\* what the classes do: first == second is True exactly when the two are the
\* same object
C12_IdentityEquality ==
    last.op = "eq" => last.ret = IF last.args[1] = last.args[2] THEN True ELSE False

----------------------------------------------------------------------------
(* C13 *)

\* the common conditions injected into a stored binding: the last ones of its
\* context, as many as the container has common conditions
Injected(km, b) ==
    LET ctx == bindings'[b].context
    IN  {ctx[j] : j \in (Len(ctx) - Len(km.common_context) + 1)..Len(ctx)}

\* C13: containers are independent.  After every Keymap(...) and extend, in
\* every container with a default_match_all, made from common conditions the
\* client left unset, each injected common condition of each stored binding
\* has that container's default (True in one container, False in another);
\* and the call changes no binding stored in another container.
C13_ContainersIndependent ==
    [][Preprocessed =>
        /\ \A k \in DOMAIN keymaps' :
                keymaps'[k].default_match_all # None =>
                    \A b \in Range(keymaps'[k].bindings) : \A c \in Injected(keymaps'[k], b) :
                        contexts'[c].match_all = keymaps'[k].default_match_all
        /\ \A k \in DOMAIN keymaps :
                k # last'.self =>
                    /\ keymaps'[k] = keymaps[k]
                    /\ BindingValues(contexts', bindings', keymaps[k].bindings)
                            = BindingValues(contexts, bindings, keymaps[k].bindings)
    ]_vars

====
